---- MODULE Spec2Model ----
(***************************************************************************)
(* Model of the two estimators of pymultifracs:                            *)
(*   StructureFunction     (src/pymultifracs/structurefunction.py)         *)
(*   MultifractalSpectrum  (src/pymultifracs/mfspectrum.py)                *)
(* built from a MultiResolutionQuantity.  Floating point values are        *)
(* modelled as exact rationals extended with nan, +inf and -inf, with the  *)
(* IEEE rules numpy applies to them (0 * inf = nan, x / 0 = +-inf,         *)
(* 0 / 0 = nan, log2(0) = -inf).  The inputs are dyadic, so that log2 is   *)
(* exact on every number the estimators take it of.                        *)
(***************************************************************************)
EXTENDS Integers, Sequences, FiniteSets, TLC

\* ------------------------------------------------------------------ bounds
\* Largest scale index of a quantity; windows range over 0 .. MaxJ + 1.
MaxJ == 3

\* ------------------------------------------------------- extended rationals
\* The one element of a singleton set.  An operator below that uses an argument
\* several times binds it first, in { e(v) : v \in {arg} }, so that the argument
\* is evaluated once.
Only(S) == CHOOSE v \in S : TRUE

RECURSIVE Gcd(_, _)
Gcd(a, b) == IF b = 0 THEN a ELSE Gcd(b, a % b)

Abs(n) == IF n < 0 THEN -n ELSE n

NaN == [k |-> "nan", n |-> 0, d |-> 1]

PInf == [k |-> "pinf", n |-> 0, d |-> 1]

NInf == [k |-> "ninf", n |-> 0, d |-> 1]

\* The rational n / d (d # 0) in lowest terms with a positive denominator.
Rat(n, d) ==
    Only({[k |-> "fin", n |-> (s * n) \div g, d |-> (s * d) \div g] :
            g \in {Gcd(Abs(n), Abs(d))}, s \in {IF d < 0 THEN -1 ELSE 1}})

Fin(n) == [k |-> "fin", n |-> n, d |-> 1]

IsFinite(a) == a.k = "fin"

IsNaN(a) == a.k = "nan"

\* -1, 0 or 1 for a value that is not nan.
Sign(a) ==
    CASE a.k = "pinf" -> 1
      [] a.k = "ninf" -> -1
      [] a.k = "fin" -> IF a.n > 0 THEN 1 ELSE IF a.n < 0 THEN -1 ELSE 0

InfOfSign(s) == IF s > 0 THEN PInf ELSE NInf

FNeg(a) ==
    Only({CASE x.k = "fin" -> [x EXCEPT !.n = -x.n]
            [] x.k = "pinf" -> NInf
            [] x.k = "ninf" -> PInf
            [] x.k = "nan" -> NaN : x \in {a}})

FAdd(a, b) ==
    Only({IF IsNaN(x) \/ IsNaN(y) THEN NaN
          ELSE IF IsFinite(x) /\ IsFinite(y) THEN Rat(x.n * y.d + y.n * x.d, x.d * y.d)
          ELSE IF IsFinite(x) THEN y
          ELSE IF IsFinite(y) THEN x
          ELSE IF x.k = y.k THEN x ELSE NaN : x \in {a}, y \in {b}})

FSub(a, b) == FAdd(a, FNeg(b))

FMul(a, b) ==
    Only({IF IsNaN(x) \/ IsNaN(y) THEN NaN
          ELSE IF IsFinite(x) /\ IsFinite(y) THEN Rat(x.n * y.n, x.d * y.d)
          ELSE IF Sign(x) * Sign(y) = 0 THEN NaN
          ELSE InfOfSign(Sign(x) * Sign(y)) : x \in {a}, y \in {b}})

\* numpy's true division: a warning and nan or an infinity, never an exception.
FDiv(a, b) ==
    Only({IF IsNaN(x) \/ IsNaN(y) THEN NaN
          ELSE IF IsFinite(x) /\ IsFinite(y) THEN
              IF y.n # 0 THEN Rat(x.n * y.d, x.d * y.n)
              ELSE IF x.n = 0 THEN NaN ELSE InfOfSign(Sign(x))
          ELSE IF IsFinite(y) THEN
              InfOfSign(Sign(x) * (IF Sign(y) < 0 THEN -1 ELSE 1))
          ELSE IF IsFinite(x) THEN Fin(0)
          ELSE NaN : x \in {a}, y \in {b}})

FAbs(a) ==
    Only({CASE x.k = "fin" -> [x EXCEPT !.n = Abs(x.n)]
            [] x.k = "nan" -> NaN
            [] OTHER -> PInf : x \in {a}})

RECURSIVE Pow2Exp(_)
\* The exponent e of n = 2^e; defined on powers of two only.
Pow2Exp(n) ==
    CASE n = 1 -> 0
      [] n > 1 /\ n % 2 = 0 -> 1 + Pow2Exp(n \div 2)

\* numpy.log2: exact on the dyadic values of the model, -inf at 0, nan below.
Log2(a) ==
    Only({CASE x.k = "nan" -> NaN
            [] x.k = "pinf" -> PInf
            [] x.k = "ninf" -> NaN
            [] x.k = "fin" /\ x.n = 0 -> NInf
            [] x.k = "fin" /\ x.n < 0 -> NaN
            [] x.k = "fin" /\ x.n > 0 -> Fin(Pow2Exp(x.n) - Pow2Exp(x.d)) : x \in {a}})

RECURSIVE IntPow(_, _)
IntPow(b, e) == IF e = 0 THEN 1 ELSE b * IntPow(b, e - 1)

\* The standard real power x^q of a finite x # 0 for an integer exponent q.
FPow(a, q) ==
    Only({IF q >= 0 THEN Rat(IntPow(x.n, q), IntPow(x.d, q))
          ELSE Rat(IntPow(x.d, -q), IntPow(x.n, -q)) : x \in {a}})

RECURSIVE FSum(_)
\* ndarray.sum.
FSum(s) ==
    Only({IF v = <<>> THEN Fin(0) ELSE FAdd(Head(v), FSum(Tail(v))) : v \in {s}})

\* numpy.mean: the sum over the count, nan for an empty array.
FMean(s) == Only({FDiv(FSum(v), Fin(Len(v))) : v \in {s}})

\* numpy.abs and numpy.log2 of an array, element by element.
AbsAll(s) == Only({[i \in 1..Len(v) |-> FAbs(v[i])] : v \in {s}})

Log2All(s) == Only({[i \in 1..Len(v) |-> Log2(v[i])] : v \in {s}})

\* ------------------------------------------------------------ numpy helpers
\* numpy.arange(a, b): the integers a, a + 1, ..., b - 1.
arange(a, b) == [i \in 1..(IF b > a THEN b - a ELSE 0) |-> a + i - 1]

ones(n) == [i \in 1..n |-> 1]

zeros(n) == [i \in 1..n |-> Fin(0)]

\* A slice bound as Python normalises it for a sequence of length n: a negative
\* bound counts from the end, and the result is clipped to 0 .. n.
SliceBound(b, n) ==
    LET c == IF b < 0 THEN b + n ELSE b
    IN  IF c < 0 THEN 0 ELSE IF c > n THEN n ELSE c

\* s[a:b] with Python's 0-based bounds (positions a .. b - 1 after normalising).
PySlice(s, a, b) ==
    LET lo == SliceBound(a, Len(s))
        hi == SliceBound(b, Len(s))
    IN  IF hi > lo THEN SubSeq(s, lo + 1, hi) ELSE <<>>

\* a[mask]: the elements of a at the positions where mask is TRUE, in order.
RECURSIVE BoolIndex(_, _)
BoolIndex(a, mask) ==
    IF a = <<>> THEN <<>>
    ELSE (IF Head(mask) THEN <<Head(a)>> ELSE <<>>) \o BoolIndex(Tail(a), Tail(mask))

\* -------------------------------------------- utils and multiresquantity
\* fast_power(x, q), element-wise on non-negative x (spec 4.1).
fast_power(x, q) ==
    [i \in 1..Len(x) |->
        IF q = 0 THEN Fin(1)
        ELSE IF x[i].n = 0 THEN Fin(0)
        ELSE FPow(x[i], q)]

\* linear_regression(x, y, nj) (spec 4.2): the weighted least-squares line by
\* weighted means; fails when all x are equal.  x and nj are integer sequences.
linear_regression(x, y, nj) ==
    IF Len(y) # Len(x) \/ Len(nj) # Len(x) THEN
        [exc |-> "ContractViolation", slope |-> NaN, intercept |-> NaN]
    ELSE IF \A i, k \in 1..Len(x) : x[i] = x[k] THEN
        [exc |-> "DegenerateRegressionError", slope |-> NaN, intercept |-> NaN]
    ELSE
        LET n == Len(x)
            W == FSum([i \in 1..n |-> Fin(nj[i])])
            xbar == FDiv(FSum([i \in 1..n |-> Fin(nj[i] * x[i])]), W)
            ybar == FDiv(FSum([i \in 1..n |-> FMul(Fin(nj[i]), y[i])]), W)
            dx(i) == FSub(Fin(x[i]), xbar)
            dy(i) == FSub(y[i], ybar)
            Sxy == FSum([i \in 1..n |-> FMul(Fin(nj[i]), FMul(dx(i), dy(i)))])
            Sxx == FSum([i \in 1..n |-> FMul(Fin(nj[i]), FMul(dx(i), dx(i)))])
            slope == FDiv(Sxy, Sxx)
        IN  [exc |-> "none", slope |-> slope,
             intercept |-> FSub(ybar, FMul(slope, xbar))]

\* get_nj_interv(j1, j2) on a mapping nj: the counts of the scales j1 .. j2
\* (spec 3, weight_over_interval); a scale the mapping lacks is an error.
get_nj_interv(nj, j1, j2) ==
    IF \E j \in j1..j2 : j \notin DOMAIN nj THEN
        [exc |-> "InvalidWindowError", val |-> <<>>]
    ELSE
        [exc |-> "none", val |-> [i \in 1..(IF j2 >= j1 THEN j2 - j1 + 1 ELSE 0) |-> nj[j1 + i - 1]]]

\* ------------------------------------------------------------------ objects
\* An estimator object: attrs is the set of attributes assigned so far; a field
\* outside attrs holds a placeholder and reading it is an AttributeError.
\* nfilled counts the per-q regression outputs stored so far.
NewObj(cls) ==
    [cls |-> cls, attrs |-> {}, q |-> <<>>, j1 |-> 0, j2 |-> 0, wtype |-> FALSE,
     name |-> "", nj |-> "", j |-> <<>>, values |-> <<>>, logvalues |-> <<>>,
     zeta |-> <<>>, intercept |-> <<>>, U |-> <<>>, V |-> <<>>, Dq |-> <<>>,
     hq |-> <<>>, nfilled |-> 0]

Unbound == NewObj("none")

SetAttr(o, f, v) == [o EXCEPT ![f] = v, !.attrs = @ \cup {f}]

\* The dataclass-generated __init__ stores the init fields q, j1, j2, wtype (the
\* same four for both classes) before it calls __post_init__.
dataclass_init(cls, q, j1, j2, wtype) ==
    SetAttr(SetAttr(SetAttr(SetAttr(NewObj(cls), "q", q), "j1", j1), "j2", j2),
            "wtype", wtype)

\* -------------------------------------------------------- StructureFunction
\* The columns of a per-scale array, 1-based: column i holds scale self.j[i].
Columns(self) == [i \in 1..Len(self.j) |-> i]

\* _compute taking the absolute values in place (np.abs(c_j, out=c_j)): the
\* quantity's own arrays are overwritten.
StructureFunction_compute_InPlaceAbs(self, mrq) ==
    LET c(j) == AbsAll(mrq.values[j])
        values == [iq \in 1..Len(self.q) |->
                     [ij \in 1..Len(self.j) |->
                        FMean(fast_power(c(self.j[ij]), self.q[iq]))]]
        logvalues == [iq \in 1..Len(self.q) |-> Log2All(values[iq])]
    IN  [self |-> SetAttr(self, "logvalues", logvalues),
         mrq |-> [mrq EXCEPT !.values = [j \in DOMAIN mrq.values |-> c(j)]]]

\* _compute: values[ind_q][ind_j] = mean(fast_power(|c_j|, q)), kept in a local;
\* only logvalues is assigned to the object.  The quantity is read, not written.
StructureFunction_compute(self, mrq) ==
    LET c(j) == AbsAll(mrq.values[j])
        values == [iq \in 1..Len(self.q) |->
                     [ij \in 1..Len(self.j) |->
                        FMean(fast_power(c(self.j[ij]), self.q[iq]))]]
        logvalues == [iq \in 1..Len(self.q) |-> Log2All(values[iq])]
    IN  [self |-> SetAttr(self, "logvalues", logvalues), mrq |-> mrq]

RECURSIVE StructureFunction_zeta_loop(_, _, _, _, _)
\* The loop of _compute_zeta from ind_q (1-based) on: one regression per q on
\* the slice [j1 - 1 : j2] of the row; an exception ends the loop.
StructureFunction_zeta_loop(self, x, nj, ind_q, regs) ==
    IF ind_q > Len(self.q) THEN [self |-> self, exc |-> "none", regs |-> regs]
    ELSE
        LET ind_j1 == self.j1 - 1
            ind_j2 == self.j2 - 1
            y == PySlice(self.logvalues[ind_q], ind_j1, ind_j2 + 1)
            cols == PySlice(Columns(self), ind_j1, ind_j2 + 1)
            r == linear_regression(x, y, nj)
            log == Append(regs, [x |-> x, y |-> y, cols |-> cols, w |-> nj])
        IN  IF r.exc # "none" THEN [self |-> self, exc |-> r.exc, regs |-> log]
            ELSE StructureFunction_zeta_loop(
                    [self EXCEPT !.zeta[ind_q] = r.slope,
                                 !.intercept[ind_q] = r.intercept,
                                 !.nfilled = @ + 1],
                    x, nj, ind_q + 1, log)

\* _compute_zeta with the regressions wrapped in a try/except that drops the
\* exception: the method returns with the outputs stored so far.
StructureFunction_compute_zeta_Swallow(self, mrq) ==
    LET s1 == SetAttr(SetAttr(self, "zeta", zeros(Len(self.q))),
                      "intercept", zeros(Len(self.q)))
        x == arange(self.j1, self.j2 + 1)
        nj == IF self.wtype THEN get_nj_interv(mrq.nj, self.j1, self.j2)
              ELSE [exc |-> "none", val |-> ones(Len(x))]
    IN  IF nj.exc # "none" THEN [self |-> s1, exc |-> "none", regs |-> <<>>]
        ELSE [StructureFunction_zeta_loop(s1, x, nj.val, 1, <<>>) EXCEPT !.exc = "none"]

\* _compute_zeta.
StructureFunction_compute_zeta(self, mrq) ==
    LET s1 == SetAttr(SetAttr(self, "zeta", zeros(Len(self.q))),
                      "intercept", zeros(Len(self.q)))
        x == arange(self.j1, self.j2 + 1)
        nj == IF self.wtype THEN get_nj_interv(mrq.nj, self.j1, self.j2)
              ELSE [exc |-> "none", val |-> ones(Len(x))]
    IN  IF nj.exc # "none" THEN [self |-> s1, exc |-> nj.exc, regs |-> <<>>]
        ELSE StructureFunction_zeta_loop(s1, x, nj.val, 1, <<>>)

\* __post_init__(self, mrq).
StructureFunction_post_init(self, mrq) ==
    LET s1 == SetAttr(SetAttr(self, "name", mrq.name), "j", mrq.scales)
        c == StructureFunction_compute(s1, mrq)
        z == StructureFunction_compute_zeta(c.self, c.mrq)
    IN  [self |-> z.self, exc |-> z.exc, regs |-> z.regs, mrq |-> c.mrq]

\* The arguments the generated __init__ passes to __post_init__: the InitVar
\* pseudo-fields of the class, in order.
StructureFunction_InitVars == <<"mrq">>

\* The parameters __post_init__ declares after self.
StructureFunction_PostInitParams == <<"mrq">>

\* StructureFunction(mrq, q, j1, j2, wtype).
StructureFunction_new(mrq, q, j1, j2, wtype) ==
    LET s0 == dataclass_init("StructureFunction", q, j1, j2, wtype)
    IN  IF StructureFunction_InitVars # StructureFunction_PostInitParams THEN
            [self |-> s0, exc |-> "TypeError", regs |-> <<>>, mrq |-> mrq]
        ELSE StructureFunction_post_init(s0, mrq)

NoRet == [some |-> FALSE, val |-> Fin(0)]

\* get_H returning zeta(q=2) itself, the division by two forgotten.
get_H_NoHalving(self) ==
    LET H == BoolIndex(self.zeta, [i \in 1..Len(self.q) |-> self.q[i] = 2])
    IN  [self |-> self,
         ret |-> IF Len(H) > 0 THEN [some |-> TRUE, val |-> H[1]] ELSE NoRet]

\* get_H: zeta[q == 2], then its first element halved, or None (some = FALSE);
\* no attribute of self is assigned.
get_H(self) ==
    LET H == BoolIndex(self.zeta, [i \in 1..Len(self.q) |-> self.q[i] = 2])
    IN  [self |-> self,
         ret |-> IF Len(H) > 0 THEN [some |-> TRUE, val |-> FDiv(H[1], Fin(2))]
                 ELSE NoRet]

\* get_intercept: intercept[q == 2], then its first element, or None.
get_intercept(self) ==
    LET b == BoolIndex(self.intercept, [i \in 1..Len(self.q) |-> self.q[i] = 2])
    IN  [self |-> self,
         ret |-> IF Len(b) > 0 THEN [some |-> TRUE, val |-> b[1]] ELSE NoRet]

\* ------------------------------------------------------ MultifractalSpectrum
\* The mapping a reference held in an attribute nj denotes: __post_init__ stores
\* the quantity's own nj mapping, not a copy of it.
Deref(ref, mrq) == IF ref = "mrq.nj" THEN mrq.nj ELSE <<>>

\* The row of R_j for one exponent q: temp / temp.sum().
Spectrum_R(m, q) ==
    LET temp == fast_power(m, q)
        total == FSum(temp)
    IN  [i \in 1..Len(m) |-> FDiv(temp[i], total)]

\* V[ind_j, q] = (R_j * log2(|c_j|)).sum().
Spectrum_V(m, R) == FSum([i \in 1..Len(m) |-> FMul(R[i], Log2(m[i]))])

\* U[ind_j, q] = log2(nj) + (R_j * log2(R_j)).sum().
Spectrum_U(nj, R) ==
    FAdd(Log2(Fin(nj)), FSum([i \in 1..Len(R) |-> FMul(R[i], Log2(R[i]))]))

Column(M, c) == [i \in 1..Len(M) |-> M[i][c]]

RECURSIVE Spectrum_loop(_, _, _, _, _, _, _)
\* The regression loop of _compute from ind_q (1-based) on, with the locals Dq
\* and hq; an exception ends it.
Spectrum_loop(self, x, wj, ind_q, Dq, hq, regs) ==
    IF ind_q > Len(self.q) THEN
        [self |-> self, exc |-> "none", regs |-> regs, Dq |-> Dq, hq |-> hq]
    ELSE
        LET y == Column(PySlice(self.U, self.j1 - 1, self.j2), ind_q)
            z == Column(PySlice(self.V, self.j1 - 1, self.j2), ind_q)
            cols == PySlice(Columns(self), self.j1 - 1, self.j2)
            r1 == linear_regression(x, y, wj)
            r2 == linear_regression(x, z, wj)
            log1 == Append(regs, [x |-> x, y |-> y, cols |-> cols, w |-> wj])
            log2 == Append(log1, [x |-> x, y |-> z, cols |-> cols, w |-> wj])
        IN  IF r1.exc # "none" THEN
                [self |-> self, exc |-> r1.exc, regs |-> log1, Dq |-> Dq, hq |-> hq]
            ELSE IF r2.exc # "none" THEN
                [self |-> self, exc |-> r2.exc, regs |-> log2, Dq |-> Dq, hq |-> hq]
            ELSE Spectrum_loop([self EXCEPT !.nfilled = @ + 1], x, wj, ind_q + 1,
                               [Dq EXCEPT ![ind_q] = FAdd(Fin(1), r1.slope)],
                               [hq EXCEPT ![ind_q] = r2.slope], log2)

\* _compute.
MultifractalSpectrum_compute(self, mrq) ==
    LET m(j) == AbsAll(mrq.values[j])
        R == [ij \in 1..Len(self.j) |-> [iq \in 1..Len(self.q) |->
                Spectrum_R(m(self.j[ij]), self.q[iq])]]
        U == [ij \in 1..Len(self.j) |-> [iq \in 1..Len(self.q) |->
                Spectrum_U(mrq.nj[self.j[ij]], R[ij][iq])]]
        V == [ij \in 1..Len(self.j) |-> [iq \in 1..Len(self.q) |->
                Spectrum_V(m(self.j[ij]), R[ij][iq])]]
        s1 == SetAttr(SetAttr(self, "U", U), "V", V)
        x == arange(self.j1, self.j2 + 1)
        wj == IF self.wtype
              THEN get_nj_interv(Deref(self.nj, mrq), self.j1, self.j2)
              ELSE [exc |-> "none", val |-> ones(Len(x))]
    IN  IF wj.exc # "none" THEN [self |-> s1, exc |-> wj.exc, regs |-> <<>>, mrq |-> mrq]
        ELSE
            LET l == Spectrum_loop(s1, x, wj.val, 1, zeros(Len(self.q)),
                                   zeros(Len(self.q)), <<>>)
            IN  IF l.exc # "none" THEN
                    [self |-> l.self, exc |-> l.exc, regs |-> l.regs, mrq |-> mrq]
                ELSE
                    [self |-> SetAttr(SetAttr(l.self, "Dq", l.Dq), "hq", l.hq),
                     exc |-> "none", regs |-> l.regs, mrq |-> mrq]

\* __post_init__(self, mrq, j1, j2, wtype): the body reads self.j1, self.j2 and
\* self.wtype, never its own parameters j1, j2, wtype.
MultifractalSpectrum_post_init(self, mrq, j1, j2, wtype) ==
    LET s1 == SetAttr(SetAttr(SetAttr(self, "name", mrq.name), "nj", "mrq.nj"),
                      "j", mrq.scales)
    IN  MultifractalSpectrum_compute(s1, mrq)

\* The only InitVar pseudo-field of the class.
MultifractalSpectrum_InitVars == <<"mrq">>

\* The parameters __post_init__ declares after self.
MultifractalSpectrum_PostInitParams == <<"mrq", "j1", "j2", "wtype">>

\* MultifractalSpectrum(mrq, j1, j2, wtype, q): the generated __init__ calls
\* __post_init__ with the InitVar arguments only; a call that leaves required
\* parameters without an argument is a TypeError and the body never runs.
MultifractalSpectrum_new(mrq, q, j1, j2, wtype) ==
    LET s0 == dataclass_init("MultifractalSpectrum", q, j1, j2, wtype)
    IN  IF MultifractalSpectrum_InitVars # MultifractalSpectrum_PostInitParams THEN
            [self |-> s0, exc |-> "TypeError", regs |-> <<>>, mrq |-> mrq]
        ELSE MultifractalSpectrum_post_init(s0, mrq, j1, j2, wtype)

\* ------------------------------------------------------------------- inputs
Pow2(e) == IntPow(2, e)

\* The coefficient array of scale j under a profile.  Within a scale the
\* non-zero coefficients share one magnitude, a power of two, and the counts are
\* 1 or 2: every moment and every R is then dyadic.
Coefficients(profile, j) ==
    CASE profile = "geometric" -> <<Fin(-Pow2(j)), Fin(Pow2(j))>>
      [] profile = "zeroscale" ->
            IF j = 2 THEN <<Fin(0), Fin(0)>> ELSE <<Fin(Pow2(j))>>
      [] profile = "sparse" ->
            IF j % 2 = 1 THEN <<Fin(0), Fin(-2)>> ELSE <<Fin(4)>>

Profiles == {"geometric", "zeroscale", "sparse"}

RECURSIVE Ascending(_)
\* The elements of a finite set of integers in ascending order.
Ascending(S) ==
    IF S = {} THEN <<>>
    ELSE LET lo == CHOOSE a \in S : \A b \in S : a <= b
         IN  <<lo>> \o Ascending(S \ {lo})

Quantity(S, profile) ==
    [name |-> profile,
     scales |-> Ascending(S),
     values |-> [j \in S |-> Coefficients(profile, j)],
     nj |-> [j \in S |-> Len(Coefficients(profile, j))]]

Quantities == {Quantity(S, p) : S \in (SUBSET (1..MaxJ)) \ {{}}, p \in Profiles}

QSeqs == {<<1, 2>>, <<0, -1>>, <<2, 1, 2>>}

J1s == 0..MaxJ

J2s == 1..(MaxJ + 1)

\* -------------------------------------------------------------------- state
VARIABLES
    mrq,    \* the MultiResolutionQuantity every estimator is built from
    pc,     \* "idle", or "calling" while the call in `call` has yet to run
    call,   \* the last call and its arguments
    est,    \* the estimator the caller holds from the last constructor call
    obj,    \* the object the last constructor call worked on, as it left it
    exc,    \* the exception the last call raised ("none" when it returned)
    regs,   \* the linear_regression calls of the last constructor call
    ret     \* the value the last accessor call returned

vars == <<mrq, pc, call, est, obj, exc, regs, ret>>

NoCall == [op |-> "none", q |-> <<>>, j1 |-> 0, j2 |-> 0, wtype |-> FALSE]

Init ==
    /\ mrq \in Quantities
    /\ pc = "idle"
    /\ call = NoCall
    /\ est = Unbound
    /\ obj = Unbound
    /\ exc = "none"
    /\ regs = <<>>
    /\ ret = NoRet

Constructors == {"StructureFunction", "MultifractalSpectrum"}

\* The caller evaluates "est = op(mrq, q, j1, j2, wtype)": it picks the
\* arguments; the call itself is the next step.
Call(ops) ==
    /\ pc = "idle"
    /\ \E op \in ops, q \in QSeqs, j1 \in J1s, j2 \in J2s, wtype \in BOOLEAN :
          call' = [op |-> op, q |-> q, j1 |-> j1, j2 |-> j2, wtype |-> wtype]
    /\ pc' = "calling"
    /\ est' = Unbound
    /\ obj' = Unbound
    /\ exc' = "none"
    /\ regs' = <<>>
    /\ ret' = NoRet
    /\ UNCHANGED mrq

\* What the caller's variable holds after the call: the new object when the
\* constructor returned; nothing when it raised.
Bind(r) == IF r.exc = "none" THEN r.self ELSE Unbound

\* The call in `call` is one of op and has yet to run.
Calling(op) == pc = "calling" /\ call.op = op

Construct(r) ==
    /\ pc' = "idle"
    /\ mrq' = r.mrq
    /\ est' = Bind(r)
    /\ obj' = r.self
    /\ exc' = r.exc
    /\ regs' = r.regs
    /\ UNCHANGED <<call, ret>>

NewStructureFunction ==
    /\ Calling("StructureFunction")
    /\ \E r \in {StructureFunction_new(mrq, call.q, call.j1, call.j2, call.wtype)} :
          Construct(r)

NewMultifractalSpectrum ==
    /\ Calling("MultifractalSpectrum")
    /\ \E r \in {MultifractalSpectrum_new(mrq, call.q, call.j1, call.j2, call.wtype)} :
          Construct(r)

\* __post_init__ of MultifractalSpectrum applied with all four of its declared
\* arguments to an object whose init fields are set.
\* The caller made the object itself, so it holds it however the call ends.
ApplySpectrumPostInit ==
    /\ Calling("MultifractalSpectrum.__post_init__")
    /\ \E r \in {MultifractalSpectrum_post_init(
                  dataclass_init("MultifractalSpectrum", call.q, call.j1, call.j2,
                                 call.wtype),
                  mrq, call.j1, call.j2, call.wtype)} :
          /\ pc' = "idle"
          /\ mrq' = r.mrq
          /\ est' = r.self
          /\ obj' = r.self
          /\ exc' = r.exc
          /\ regs' = r.regs
          /\ UNCHANGED <<call, ret>>

Accessor(op, r) ==
    /\ pc = "idle"
    /\ est.cls = "StructureFunction"
    /\ ret' = r.ret
    /\ est' = r.self
    /\ call' = [NoCall EXCEPT !.op = op]
    /\ exc' = "none"
    /\ UNCHANGED <<mrq, pc, obj, regs>>

GetH == Accessor("get_H", get_H(est))

GetIntercept == Accessor("get_intercept", get_intercept(est))

Next ==
    \/ Call(Constructors)
    \/ NewStructureFunction
    \/ NewMultifractalSpectrum
    \/ GetH
    \/ GetIntercept

Spec == Init /\ [][Next]_vars

\* The same program with MultifractalSpectrum.__post_init__ also called
\* directly, which is the only way its body and _compute run.
NextMethods ==
    \/ Call(Constructors \cup {"MultifractalSpectrum.__post_init__"})
    \/ NewStructureFunction
    \/ NewMultifractalSpectrum
    \/ ApplySpectrumPostInit
    \/ GetH
    \/ GetIntercept

SpecMethods == Init /\ [][NextMethods]_vars

\* ------------------------------------------------------------------ claims
\* A constructor call of class op has ended, by returning or by raising.
Ended(op) == pc = "idle" /\ call.op = op

Scales == DOMAIN mrq.values

\* The quantity's scales are the run 1 .. n.
OneBased == mrq.scales = arange(1, Len(mrq.scales) + 1)

\* [j1, j2] has two points at least and lies within the quantity's scales.
ValidWindow == call.j1 < call.j2 /\ \A j \in call.j1..call.j2 : j \in Scales

AllZero(j) == \A i \in 1..Len(mrq.values[j]) : mrq.values[j][i].n = 0

SomeZero(j) == \E i \in 1..Len(mrq.values[j]) : mrq.values[j][i].n = 0

Poisoned(a) == a.k # "fin"

\* C1: a StructureFunction built with a window j2 < j1 + 1 fails with an
\* InvalidWindowError, no regression is run and the caller gets no estimator.
\* (Stated for the estimator whose constructor reaches its regressions.)
C1_WindowOfOnePointRejected ==
    (Ended("StructureFunction") /\ call.j2 < call.j1 + 1)
        => (exc = "InvalidWindowError" /\ regs = <<>> /\ est = Unbound)

\* C2: a StructureFunction built with j1 < j2 and j1 or j2 outside the scales of
\* the quantity raises, and every regression that ran got a y vector of exactly
\* j2 - j1 + 1 entries.
C2_WindowOutsideScalesRejected ==
    (Ended("StructureFunction") /\ call.j1 < call.j2
        /\ (call.j1 \notin Scales \/ call.j2 \notin Scales))
        => /\ exc # "none"
           /\ \A i \in 1..Len(regs) : Len(regs[i].y) = call.j2 - call.j1 + 1

\* C3: a StructureFunction built over a valid window of scales 1 .. n that holds
\* a scale with all coefficients zero, with some q # 0, raises ZeroMassError or
\* EmptyScaleError, and the caller gets no estimator (so none with -inf or nan
\* in logvalues).
C3_ZeroScaleRejected ==
    (Ended("StructureFunction") /\ OneBased /\ ValidWindow
        /\ (\E j \in call.j1..call.j2 : AllZero(j))
        /\ (\E i \in 1..Len(call.q) : call.q[i] # 0))
        => (exc \in {"ZeroMassError", "EmptyScaleError"} /\ est = Unbound)

\* The first position of 2 in q.
FirstTwo(q) == CHOOSE i \in 1..Len(q) : q[i] = 2 /\ \A k \in 1..(i - 1) : q[k] # 2

C4_Return ==
    (pc = "idle" /\ call.op = "get_H") =>
        IF \A i \in 1..Len(est.q) : est.q[i] # 2 THEN ~ret.some
        ELSE ret.some /\ FMul(ret.val, Fin(2)) = est.zeta[FirstTwo(est.q)]

C4_Frame == call'.op = "get_H" => est' = est

\* C4: get_H() returns None when 2 is not in q, and otherwise the half of the
\* slope stored at the first position of 2 in q; it changes no field of the
\* estimator.
C4_GetH == [](C4_Return) /\ [][C4_Frame]_vars

\* A call of get_H has returned a finite non-zero value for a q that holds 2
\* twice.
C4_Witness ==
    /\ pc = "idle" /\ call.op = "get_H"
    /\ est.q = <<2, 1, 2>>
    /\ ret.some /\ ret.val.k = "fin" /\ ret.val.n # 0

\* C5: a MultifractalSpectrum built from valid inputs (1 <= j1 < j2 within the
\* scales 1 .. n, no zero coefficient) is computed: the constructor returns and
\* U, V, Dq and hq are set.
C5_SpectrumConstructs ==
    (Ended("MultifractalSpectrum") /\ OneBased /\ ValidWindow
        /\ \A j \in Scales : ~SomeZero(j))
        => (exc = "none" /\ {"U", "V", "Dq", "hq"} \subseteq est.attrs)

\* C6: a constructed StructureFunction has values, logvalues, zeta and intercept
\* set, and logvalues is log2 of values, entry by entry.
C6_ValuesPopulated ==
    est.cls = "StructureFunction" =>
        /\ {"values", "logvalues", "zeta", "intercept"} \subseteq est.attrs
        /\ est.logvalues = [iq \in 1..Len(est.q) |-> Log2All(est.values[iq])]

\* C7: no step (a constructor of either class, __post_init__ of the spectrum,
\* get_H, get_intercept) changes the quantity: its scales, nj and coefficients.
C7_QuantityUnchanged == [][mrq' = mrq]_vars

\* An estimator that holds the quantity's own nj mapping has been computed from
\* a quantity with negative coefficients.
C7_Witness ==
    /\ pc = "idle"
    /\ est.cls = "MultifractalSpectrum" /\ est.nj = "mrq.nj" /\ "Dq" \in est.attrs
    /\ \E j \in Scales : \E i \in 1..Len(mrq.values[j]) : mrq.values[j][i].n < 0

\* C8: the estimator the caller holds has its per-scale arrays and all its
\* per-q regression outputs; after a constructor raised, the caller holds none.
C8_NoPartialEstimator ==
    /\ est.cls = "StructureFunction" =>
          /\ {"logvalues", "zeta", "intercept"} \subseteq est.attrs
          /\ est.nfilled = Len(est.q)
    /\ est.cls = "MultifractalSpectrum" =>
          /\ {"U", "V", "Dq", "hq"} \subseteq est.attrs
          /\ est.nfilled = Len(est.q)
    /\ (pc = "idle" /\ call.op \in Constructors /\ exc # "none") => est = Unbound

\* A constructor raised in its regressions: the object it worked on has
\* logvalues and not all of its slopes, and the caller holds nothing.
C8_Witness ==
    /\ Ended("StructureFunction") /\ exc # "none"
    /\ {"logvalues", "zeta"} \subseteq obj.attrs
    /\ obj.nfilled < Len(obj.q)
    /\ est = Unbound

\* C9: for a window j1 .. j2 of scales of the quantity, every regression of a
\* StructureFunction pairs x = j with the column computed from scale j.
C9_RegressionPairsScales ==
    (Ended("StructureFunction") /\ call.j1 <= call.j2
        /\ \A j \in call.j1..call.j2 : j \in Scales)
        => \A i \in 1..Len(regs) :
              [k \in 1..Len(regs[i].cols) |-> obj.j[regs[i].cols[k]]] = regs[i].x

\* C10: U(j, q) is finite for a scale with some but not only zero coefficients
\* and q # 0.
C10_EntropyOfZeroIsZero ==
    (Ended("MultifractalSpectrum.__post_init__") /\ "U" \in obj.attrs) =>
        \A ij \in 1..Len(obj.j), iq \in 1..Len(obj.q) :
            (SomeZero(obj.j[ij]) /\ ~AllZero(obj.j[ij]) /\ obj.q[iq] # 0)
                => ~Poisoned(obj.U[ij][iq])

====
